---------------------------- MODULE Spec2Model ----------------------------
(***************************************************************************)
(* Game of Life Studio (App.tsx): the board, the rule engine computeNext,  *)
(* the requestAnimationFrame driver and the handlers of the controls.      *)
(*                                                                         *)
(* A board (Uint8Array) is a function from 0..length-1 to 0..255; the      *)
(* cell (x,y) of a board of width w is at index y*w + x.                   *)
(*                                                                         *)
(* A JavaScript number is a record: Real(n, f) is n + f/10 (f in 0..9),    *)
(* Num(n) is the integer n and NaN is NaN.                                 *)
(***************************************************************************)
EXTENDS Integers, Sequences, FiniteSets, TLC

VARIABLES
    config,        \* useState config: width, height, speed, wrap, theme
    cells,         \* useState cells: the board
    generation,    \* useState generation
    running,       \* useState running
    draftSize,     \* useState draftSize: width, height as typed
    lastFrameRef,  \* useRef lastFrameRef: timestamp of the last automatic advance
    paintValueRef, \* useRef paintValueRef
    isPainting,    \* useState isPainting
    frames,        \* number of requestAnimationFrame callbacks pending
    now,           \* timestamp handed to the latest frame callback (ms)
    op,            \* history: the handler that ran last, whether it took effect, and
                   \* what it replaced (the old size, the last automatic advance)
    autoAt,        \* history: <<t>>, t the timestamp of the last automatic advance
    nOps,          \* history: number of handler and callback runs so far
    density,       \* useState density, in hundredths (32 is 0.32)
    storage,       \* localStorage: the record under STORAGE_KEY
    queue,         \* state updates of a frame callback that await the next render
    fn             \* the pure-function harness: inputs and result

vars == <<config, cells, generation, running, draftSize, lastFrameRef,
          paintValueRef, isPainting, frames, now, op, autoAt, nOps,
          density, storage, queue, fn>>

appVars == <<config, cells, generation, running, draftSize, lastFrameRef,
             paintValueRef, isPainting, frames, now, op, autoAt, nOps,
             density, storage, queue>>

----------------------------------------------------------------------------
(* JavaScript numbers with NaN *)

NaN == [nan |-> TRUE, v |-> 0, f |-> 0]

Real(n, tenths) == [nan |-> FALSE, v |-> n, f |-> tenths]

Num(n) == Real(n, 0)

IsNaN(a) == a.nan

\* a * b, for integers and NaN
JsMul(a, b) == IF a.nan \/ b.nan THEN NaN ELSE Num(a.v * b.v)

\* a < b, a >= b, a === b: every comparison with NaN is false
JsLt(a, b) == ~a.nan /\ ~b.nan /\ 10 * a.v + a.f < 10 * b.v + b.f

JsGe(a, b) == ~a.nan /\ ~b.nan /\ 10 * a.v + a.f >= 10 * b.v + b.f

JsStrictEq(a, b) == ~a.nan /\ ~b.nan /\ a.v = b.v /\ a.f = b.f

\* Math.min(a, b), Math.max(a, b): NaN if either argument is NaN
MathMin(a, b) == IF a.nan \/ b.nan THEN NaN ELSE IF JsLt(a, b) THEN a ELSE b

MathMax(a, b) == IF a.nan \/ b.nan THEN NaN ELSE IF JsLt(a, b) THEN b ELSE a

\* Math.round(a): halves round up
MathRound(a) == IF a.nan THEN NaN ELSE Num(IF a.f >= 5 THEN a.v + 1 ELSE a.v)

\* new Uint8Array(n): ToIndex(NaN) is 0
ArrayLength(n) == IF n.nan THEN 0 ELSE n.v

----------------------------------------------------------------------------
(* Boards *)

BoardLen(board) == Cardinality(DOMAIN board)

ZeroBoard(n) == [i \in 0..(n - 1) |-> 0]

\* createEmptyBoard(width, height) == new Uint8Array(width * height)
createEmptyBoard(width, height) == ZeroBoard(ArrayLength(JsMul(width, height)))

----------------------------------------------------------------------------
(* The rule engine *)

\* the (dx, dy) pairs in the order of the two loops, (0,0) skipped
neighborOffsets ==
    << <<-1, -1>>, <<0, -1>>, <<1, -1>>,
       <<-1, 0>>,             <<1, 0>>,
       <<-1, 1>>,  <<0, 1>>,  <<1, 1>> >>

\* a variant of the wrap that stops at the edge instead of crossing it
wrapCoordClamps(n, size) ==
    IF n < 0 THEN 0 ELSE IF n >= size THEN size - 1 ELSE n

\* if (n < 0) n = size - 1; if (n >= size) n = 0
wrapCoord(n, size) ==
    LET a == IF n < 0 THEN size - 1 ELSE n
    IN  IF a >= size THEN 0 ELSE a

\* the bounded-mode test of one neighbour: TRUE when the neighbour is skipped
outside(nx, ny, width, height) ==
    nx < 0 \/ nx >= width \/ ny < 0 \/ ny >= height

\* a variant of the inner loop body that wraps in both modes
neighborTermAlwaysWraps(board, width, height, wrap, x, y, d) ==
    board[wrapCoord(y + d[2], height) * width + wrapCoord(x + d[1], width)]

\* what one pass of the inner loop body adds to neighbors
neighborTerm(board, width, height, wrap, x, y, d) ==
    LET nx == x + d[1]
        ny == y + d[2]
    IN  IF wrap
        THEN board[wrapCoord(ny, height) * width + wrapCoord(nx, width)]
        ELSE IF outside(nx, ny, width, height)
             THEN 0
             ELSE board[ny * width + nx]

\* neighbors after the two loops over dy and dx
countNeighbors(board, width, height, wrap, x, y) ==
    neighborTerm(board, width, height, wrap, x, y, neighborOffsets[1])
    + neighborTerm(board, width, height, wrap, x, y, neighborOffsets[2])
    + neighborTerm(board, width, height, wrap, x, y, neighborOffsets[3])
    + neighborTerm(board, width, height, wrap, x, y, neighborOffsets[4])
    + neighborTerm(board, width, height, wrap, x, y, neighborOffsets[5])
    + neighborTerm(board, width, height, wrap, x, y, neighborOffsets[6])
    + neighborTerm(board, width, height, wrap, x, y, neighborOffsets[7])
    + neighborTerm(board, width, height, wrap, x, y, neighborOffsets[8])

\* a variant of the rule in which a live cell survives on two neighbours only
ruleSurvivesOnTwoOnly(alive, neighbors) ==
    IF alive
    THEN (IF neighbors = 2 THEN 1 ELSE 0)
    ELSE (IF neighbors = 3 THEN 1 ELSE 0)

\* next[idx] of lines 425-429
rule(alive, neighbors) ==
    IF alive
    THEN (IF neighbors = 2 \/ neighbors = 3 THEN 1 ELSE 0)
    ELSE (IF neighbors = 3 THEN 1 ELSE 0)

\* the two loops of computeNext for numeric width and height: next has
\* board.length cells, the loops write the cells y*width + x, x < width, y < height
nextBoard(board, width, height, wrap) ==
    [idx \in DOMAIN board |->
        IF idx < width * height
        THEN rule(board[idx] # 0,
                  countNeighbors(board, width, height, wrap,
                                 idx % width, idx \div width))
        ELSE 0]


\* computeNext(board, width, height, wrap): with a NaN width or height the
\* loop tests y < height, x < width are false and next stays all zero
computeNext(board, width, height, wrap) ==
    IF width.nan \/ height.nan
    THEN ZeroBoard(BoardLen(board))
    ELSE nextBoard(board, width.v, height.v, wrap)

\* a variant of boardAfterCall whose loops write the new cells into board
boardAfterCallWritesInput(board, width, height, wrap) ==
    computeNext(board, width, height, wrap)

\* the array passed as board, after the call: lines 425 and 427 write to
\* next, the array allocated at line 404, and board is only read
boardAfterCall(board, width, height, wrap) == board

----------------------------------------------------------------------------
(* Program constants *)

MIN_SIZE == 10

MAX_SIZE == 150

DEFAULT_WIDTH == 42

DEFAULT_HEIGHT == 28

----------------------------------------------------------------------------
(* Values of JSON.parse: a field of the parsed record is Undefined (absent),
   JNull, a number, a string (a sequence of characters) or a boolean *)

Undefined == [t |-> "undefined", n |-> NaN, s |-> <<>>, b |-> FALSE]

JNull == [t |-> "null", n |-> NaN, s |-> <<>>, b |-> FALSE]

\* the number k + tenths/10
JNumber(k, tenths) == [t |-> "number", n |-> Real(k, tenths), s |-> <<>>, b |-> FALSE]

JString(str) == [t |-> "string", n |-> NaN, s |-> str, b |-> FALSE]

JBoolean(bool) == [t |-> "boolean", n |-> NaN, s |-> <<>>, b |-> bool]

Digits == <<"0", "1", "2", "3", "4", "5", "6", "7", "8", "9">>

IsDigit(c) == \E i \in 1..Len(Digits) : Digits[i] = c

DigitValue(c) == (CHOOSE i \in 1..Len(Digits) : Digits[i] = c) - 1

RECURSIVE DecimalValue(_, _)
DecimalValue(str, k) ==
    IF k = 0 THEN 0 ELSE 10 * DecimalValue(str, k - 1) + DigitValue(str[k])

\* ToNumber of a string of digits and letters: "" is 0, digits are their
\* decimal value, anything else is NaN
StringToNumber(str) ==
    IF \A i \in 1..Len(str) : IsDigit(str[i])
    THEN Num(DecimalValue(str, Len(str)))
    ELSE NaN

\* ToNumber(value), as Math.round applies it to its argument
ToNumber(j) ==
    CASE j.t = "number" -> j.n
      [] j.t = "string" -> StringToNumber(j.s)
      [] j.t = "boolean" -> Num(IF j.b THEN 1 ELSE 0)
      [] j.t = "null" -> Num(0)
      [] OTHER -> NaN

\* Boolean(value)
ToBoolean(j) ==
    CASE j.t = "number" -> j.n # Num(0)
      [] j.t = "string" -> Len(j.s) > 0
      [] j.t = "boolean" -> j.b
      [] OTHER -> FALSE

\* a ?? b
Nullish(j, default) == IF j.t \in {"undefined", "null"} THEN default ELSE j

\* clampSize = (value) => Math.max(MIN_SIZE, Math.min(MAX_SIZE, Math.round(value)))
clampSize(value) ==
    MathMax(Num(MIN_SIZE), MathMin(Num(MAX_SIZE), MathRound(value)))

\* raw.replace(/[^01]/g, '')
normalize(raw) == SelectSeq(raw, LAMBDA c : c \in {"0", "1"})

\* deserializeCells(raw, width, height)
deserializeCells(raw, width, height) ==
    LET total == JsMul(width, height)
        normalized == normalize(raw)
    IN  [i \in 0..(ArrayLength(total) - 1) |->
            IF i < Len(normalized) /\ normalized[i + 1] = "1" THEN 1 ELSE 0]

light == <<"l", "i", "g", "h", "t">>

dark == <<"d", "a", "r", "k">>

neon == <<"n", "e", "o", "n">>

dawn == <<"d", "a", "w", "n">>

THEMES == {light, dark, neon, dawn}

\* names THEMES inherits from Object.prototype (two of them)
ObjectPrototypeKeys ==
    { <<"t", "o", "S", "t", "r", "i", "n", "g">>, <<"v", "a", "l", "u", "e", "O", "f">> }

\* isThemeId = (value) => value in THEMES: the in operator finds the keys of
\* THEMES and what THEMES inherits from Object.prototype
isThemeId(value) == value \in THEMES \cup ObjectPrototypeKeys

Null == [isNull |-> TRUE]

\* loadSavedState(): stored is what localStorage.getItem returns and how
\* JSON.parse fares on it
loadSavedState(stored) ==
    IF stored.kind # "object"
    THEN Null
    ELSE LET parsed == stored.fields
         IN  [isNull |-> FALSE,
              width  |-> clampSize(ToNumber(Nullish(parsed.width, JNumber(DEFAULT_WIDTH, 0)))),
              height |-> clampSize(ToNumber(Nullish(parsed.height, JNumber(DEFAULT_HEIGHT, 0)))),
              speed  |-> IF parsed.speed.t = "number"
                         THEN MathMin(Num(30), MathMax(Num(1), parsed.speed.n))
                         ELSE Num(8),
              wrap   |-> IF parsed.wrap.t # "undefined" THEN ToBoolean(parsed.wrap) ELSE TRUE,
              theme  |-> IF parsed.theme.t = "string" /\ isThemeId(parsed.theme.s)
                         THEN parsed.theme.s ELSE neon,
              cells  |-> IF parsed.cells.t = "string" THEN parsed.cells ELSE JNull]

----------------------------------------------------------------------------
(* The pattern catalog *)

\* a variant of the glider rows, mirrored left to right
gliderRowsMirrored ==
    <<
       <<".","O",".">>,
       <<"O",".",".">>,
       <<"O","O","O">> >>

gliderRows ==
    <<
       <<".","O",".">>,
       <<".",".","O">>,
       <<"O","O","O">> >>

smallExploderRows ==
    <<
       <<".","O",".">>,
       <<"O","O","O">>,
       <<"O",".","O">>,
       <<".","O",".">> >>

pulsarRows ==
    <<
       <<".",".","O","O","O",".",".",".","O","O","O",".",".">>,
       <<".",".",".",".",".",".",".",".",".",".",".",".",".">>,
       <<"O",".",".",".",".","O",".","O",".",".",".",".","O">>,
       <<"O",".",".",".",".","O",".","O",".",".",".",".","O">>,
       <<"O",".",".",".",".","O",".","O",".",".",".",".","O">>,
       <<".",".","O","O","O",".",".",".","O","O","O",".",".">>,
       <<".",".",".",".",".",".",".",".",".",".",".",".",".">>,
       <<".",".","O","O","O",".",".",".","O","O","O",".",".">>,
       <<"O",".",".",".",".","O",".","O",".",".",".",".","O">>,
       <<"O",".",".",".",".","O",".","O",".",".",".",".","O">>,
       <<"O",".",".",".",".","O",".","O",".",".",".",".","O">>,
       <<".",".",".",".",".",".",".",".",".",".",".",".",".">>,
       <<".",".","O","O","O",".",".",".","O","O","O",".",".">> >>

gosperRows ==
    <<
       <<".",".",".",".",".",".",".",".",".",".",".",".",".",".",".",".",".",".",".",".",".",".",".",".","O",".",".",".",".",".",".",".",".",".",".",".">>,
       <<".",".",".",".",".",".",".",".",".",".",".",".",".",".",".",".",".",".",".",".",".",".","O",".","O",".",".",".",".",".",".",".",".",".",".",".">>,
       <<".",".",".",".",".",".",".",".",".",".",".",".","O","O",".",".",".",".",".",".","O","O",".",".",".",".",".",".",".",".",".",".",".",".","O","O">>,
       <<".",".",".",".",".",".",".",".",".",".",".","O",".",".",".","O",".",".",".",".","O","O",".",".",".",".",".",".",".",".",".",".",".",".","O","O">>,
       <<"O","O",".",".",".",".",".",".",".",".","O",".",".",".",".",".","O",".",".",".","O","O",".",".",".",".",".",".",".",".",".",".",".",".",".",".">>,
       <<"O","O",".",".",".",".",".",".",".",".","O",".",".",".","O",".","O","O",".",".",".",".","O",".","O",".",".",".",".",".",".",".",".",".",".",".">>,
       <<".",".",".",".",".",".",".",".",".",".","O",".",".",".",".",".","O",".",".",".",".",".",".",".","O",".",".",".",".",".",".",".",".",".",".",".">>,
       <<".",".",".",".",".",".",".",".",".",".",".","O",".",".",".","O",".",".",".",".",".",".",".",".",".",".",".",".",".",".",".",".",".",".",".",".">>,
       <<".",".",".",".",".",".",".",".",".",".",".",".","O","O",".",".",".",".",".",".",".",".",".",".",".",".",".",".",".",".",".",".",".",".",".",".">> >>

\* rowsToOffsets(rows): the offsets of the live glyphs from the template centre
rowsToOffsets(rows) ==
    LET height == Len(rows)
        width == IF height = 0 THEN 0 ELSE Len(rows[1])
        cx == width \div 2
        cy == height \div 2
    IN  { <<x - cx, y - cy>> : <<x, y>> \in
            { p \in (0..(width - 1)) \X (0..(height - 1)) :
                rows[p[2] + 1][p[1] + 1] \in {"O", "X", "1"} } }

\* a variant of the catalog whose Gosper gun asks for a board 30 wide only
PATTERNSNarrowGun ==
    << [id |-> "glider", minWidth |-> 8, minHeight |-> 8,
        offsets |-> rowsToOffsets(gliderRows)],
       [id |-> "small-exploder", minWidth |-> 10, minHeight |-> 10,
        offsets |-> rowsToOffsets(smallExploderRows)],
       [id |-> "pulsar", minWidth |-> 18, minHeight |-> 18,
        offsets |-> rowsToOffsets(pulsarRows)],
       [id |-> "gosper", minWidth |-> 30, minHeight |-> 25,
        offsets |-> rowsToOffsets(gosperRows)] >>

PATTERNS ==
    << [id |-> "glider", minWidth |-> 8, minHeight |-> 8,
        offsets |-> rowsToOffsets(gliderRows)],
       [id |-> "small-exploder", minWidth |-> 10, minHeight |-> 10,
        offsets |-> rowsToOffsets(smallExploderRows)],
       [id |-> "pulsar", minWidth |-> 18, minHeight |-> 18,
        offsets |-> rowsToOffsets(pulsarRows)],
       [id |-> "gosper", minWidth |-> 45, minHeight |-> 25,
        offsets |-> rowsToOffsets(gosperRows)] >>

----------------------------------------------------------------------------
(* The inputs of the model *)

\* the most handler and callback runs of one behaviour of Spec
MaxOps == 4

\* the most handler and callback runs of one behaviour of SpecDriver
MaxDriverOps == 6

\* a string of n cells, '1' at the indices of live
CellString(n, live) == [i \in 1..n |-> IF (i - 1) \in live THEN "1" ELSE "0"]

StoredObject(w, h, s, wr, th, c) ==
    [kind |-> "object",
     fields |-> [width |-> w, height |-> h, speed |-> s, wrap |-> wr,
                 theme |-> th, cells |-> c]]

\* the records localStorage holds at start: one the program wrote, one with
\* fields out of range or of another type, and one with a width that is no
\* number and the other fields missing
StoredInputs ==
    { StoredObject(JNumber(10, 0), JNumber(11, 0), JNumber(2, 0), JBoolean(FALSE),
                   JString(dark), JString(CellString(110, {0, 9, 11, 12, 13, 109}))),
      StoredObject(JNumber(3, 0), JString(<<"1", "1">>), JNumber(45, 0), JNumber(0, 0),
                   JString(<<"r", "e", "d">>), JString(<<"1", "x", "1", "0", "1">>)),
      StoredObject(JString(<<"a", "b", "c">>), JNumber(10, 0), Undefined, Undefined,
                   Undefined, JString(<<"1", "1">>)) }

\* timestamps of successive frame callbacks differ by one of these (ms)
FrameDeltas == {20, 600}

\* values of the speed slider (min 1, max 30)
SpeedInputs == {1, 30}

\* values typed into the board-size inputs
DraftInputs == {Num(3), Real(10, 5)}

\* the canvas is CanvasSize x CanvasSize pixels; pointer positions are
\* relative to its top-left corner
CanvasSize == 330

\* one pointer-down and one pointer-move on the canvas; SpecPaint draws from
\* more positions
PointerDownInputs == {<<5, 5>>}

PointerMoveInputs == {<<40, 5>>}

\* outcomes of randomBoard(width, height, density) the model draws from:
\* three corners live, or a row of three and the last cell live
RandomBoards(width, height) ==
    LET n == ArrayLength(JsMul(width, height))
    IN  IF n = 0 THEN {ZeroBoard(0)}
        ELSE { [i \in 0..(n - 1) |->
                    IF i \in {0, width.v - 1, (height.v - 1) * width.v} THEN 1 ELSE 0],
               [i \in 0..(n - 1) |->
                    IF i \in {width.v + 1, width.v + 2, width.v + 3, n - 1} THEN 1 ELSE 0] }

----------------------------------------------------------------------------
(* Persistence *)

\* serializeCells(cells): Array.from(cells).join('')
serializeCells(board) ==
    [i \in 1..BoardLen(board) |-> IF board[i - 1] = 1 THEN "1" ELSE "0"]

\* JSON.stringify of a number: NaN is written as null
JsonNumber(n) == IF n.nan THEN JNull ELSE JNumber(n.v, n.f)

\* saveState(nextCells): the record written under STORAGE_KEY
saveState(cfg, nextCells) ==
    StoredObject(JsonNumber(cfg.width), JsonNumber(cfg.height), JsonNumber(cfg.speed),
                 JBoolean(cfg.wrap), JString(cfg.theme),
                 JString(serializeCells(nextCells)))

----------------------------------------------------------------------------
(* App: the state after the first render and its effects *)

none == <<>>

\* useState({ width: saved?.width ?? DEFAULT_WIDTH, ... }) of lines 268-274
initialConfig(saved) ==
    [width |-> IF saved.isNull THEN Num(DEFAULT_WIDTH) ELSE saved.width,
     height |-> IF saved.isNull THEN Num(DEFAULT_HEIGHT) ELSE saved.height,
     speed |-> IF saved.isNull THEN Num(10) ELSE saved.speed,
     wrap |-> IF saved.isNull THEN TRUE ELSE saved.wrap,
     theme |-> IF saved.isNull THEN neon ELSE saved.theme]

\* a variant of initialCells that gives a record without cells a board of
\* the default size
initialCellsDefaultSize(saved) ==
    IF ~saved.isNull /\ saved.cells.t = "string" /\ Len(saved.cells.s) > 0
    THEN deserializeCells(saved.cells.s, saved.width, saved.height)
    ELSE createEmptyBoard(Num(DEFAULT_WIDTH), Num(DEFAULT_HEIGHT))

\* the initializer of useState<Uint8Array> of lines 276-280; saved?.cells is
\* truthy for a string that is not empty
initialCells(saved) ==
    IF ~saved.isNull /\ saved.cells.t = "string" /\ Len(saved.cells.s) > 0
    THEN deserializeCells(saved.cells.s, saved.width, saved.height)
    ELSE createEmptyBoard(IF saved.isNull THEN Num(DEFAULT_WIDTH) ELSE saved.width,
                          IF saved.isNull THEN Num(DEFAULT_HEIGHT) ELSE saved.height)

InitAppFrom(stored) ==
        LET saved == loadSavedState(stored)
        IN  /\ config = initialConfig(saved)
            /\ cells = initialCells(saved)
            /\ generation = 0
            /\ running = FALSE
            /\ draftSize = [width |-> config.width, height |-> config.height]
            /\ lastFrameRef = 0
            /\ paintValueRef = 1
            /\ isPainting = FALSE
            /\ frames = 0
            /\ now = 0
            /\ op = [name |-> "init", acted |-> FALSE, from |-> none]
            /\ autoAt = none
            /\ nOps = 0
            /\ density = 32
            /\ storage = saveState(config, cells)
            /\ queue = <<>>

InitApp == \E stored \in StoredInputs : InitAppFrom(stored)

----------------------------------------------------------------------------
(* The frame driver: the effect of lines 437-456 *)

\* requestAnimationFrame(tick): one more callback pending
requestAnimationFrame(f) == f + 1

\* cancelAnimationFrame(frameId): frameId is the callback requested last
cancelAnimationFrame(f) == IF f > 0 THEN f - 1 ELSE 0

\* the dependency list of the effect
driverDeps(cfg, run) == <<cfg.height, cfg.speed, cfg.width, cfg.wrap, run>>

\* a variant of the effect whose cleanup leaves the requested callback pending
driverEffectNoCancel(f, oldCfg, oldRun, newCfg, newRun) ==
    IF driverDeps(oldCfg, oldRun) = driverDeps(newCfg, newRun)
    THEN f
    ELSE IF newRun THEN requestAnimationFrame(f) ELSE f

\* what a render with changed dependencies does to the pending callbacks:
\* the cleanup of the old effect, then the new effect
driverEffect(f, oldCfg, oldRun, newCfg, newRun) ==
    IF driverDeps(oldCfg, oldRun) = driverDeps(newCfg, newRun)
    THEN f
    ELSE LET cleaned == IF oldRun THEN cancelAnimationFrame(f) ELSE f
         IN  IF newRun THEN requestAnimationFrame(cleaned) ELSE cleaned

\* a variant of the test of tick that ignores the time since the last advance
intervalElapsedAlways(timestamp, last, speed) == TRUE

\* now - lastFrameRef.current >= 1000 / config.speed
intervalElapsed(timestamp, last, speed) ==
    (timestamp - last) * (10 * speed.v + speed.f) >= 10000

Logged(name, acted, from) ==
    /\ op' = [name |-> name, acted |-> acted, from |-> from]
    /\ nOps' = nOps + 1
    /\ UNCHANGED fn

\* a handler that leaves the density alone and finds no update pending
Ran(name, acted, from) ==
    /\ Logged(name, acted, from)
    /\ UNCHANGED <<density, queue>>

\* the effect of lines 385-388 after a render: it runs when cells or
\* saveState (that is, config) changed
saveEffect ==
    IF cells' # cells \/ config' # config
    THEN storage' = saveState(config', cells')
    ELSE UNCHANGED storage

\* a variant of Tick that makes up for a gap of two step intervals or more
\* with a second advance
TickCatchesUp(delta) ==
    /\ frames > 0
    /\ now' = now + delta
    /\ IF intervalElapsed(now', lastFrameRef, config.speed)
       THEN LET once == computeNext(cells, config.width, config.height, config.wrap)
                late == (now' - lastFrameRef) * (10 * config.speed.v + config.speed.f) >= 20000
            IN  /\ cells' = IF late
                            THEN computeNext(once, config.width, config.height,
                                             config.wrap)
                            ELSE once
                /\ generation' = IF late THEN generation + 2 ELSE generation + 1
                /\ lastFrameRef' = now'
                /\ autoAt' = <<now'>>
                /\ Ran("tick", TRUE, autoAt)
       ELSE /\ UNCHANGED <<cells, generation, lastFrameRef, autoAt>>
            /\ Ran("tick", FALSE, none)
    /\ frames' = requestAnimationFrame(frames - 1)
    /\ UNCHANGED <<config, running, draftSize, paintValueRef, isPainting>>
    /\ saveEffect

\* tick(now): a pending callback runs with a later timestamp
Tick(delta) ==
    /\ frames > 0
    /\ now' = now + delta
    /\ IF intervalElapsed(now', lastFrameRef, config.speed)
       THEN /\ cells' = computeNext(cells, config.width, config.height, config.wrap)
            /\ generation' = generation + 1
            /\ lastFrameRef' = now'
            /\ autoAt' = <<now'>>
            /\ Ran("tick", TRUE, autoAt)
       ELSE /\ UNCHANGED <<cells, generation, lastFrameRef, autoAt>>
            /\ Ran("tick", FALSE, none)
    /\ frames' = requestAnimationFrame(frames - 1)
    /\ UNCHANGED <<config, running, draftSize, paintValueRef, isPainting>>
    /\ saveEffect

\* the Play/Pause button: setRunning((r) => !r)
TogglePlay ==
    /\ running' = ~running
    /\ frames' = driverEffect(frames, config, running, config, running')
    /\ Ran(IF running THEN "pause" ELSE "play", TRUE, none)
    /\ UNCHANGED <<config, cells, generation, draftSize, lastFrameRef,
                   paintValueRef, isPainting, now, autoAt>>
    /\ saveEffect

\* the Stop button: setRunning(false)
Stop ==
    /\ running' = FALSE
    /\ frames' = driverEffect(frames, config, running, config, running')
    /\ Ran("stop", running, none)
    /\ UNCHANGED <<config, cells, generation, draftSize, lastFrameRef,
                   paintValueRef, isPainting, now, autoAt>>
    /\ saveEffect

\* a variant of the reset that leaves the generation counter alone
resetGenerationKeeps == generation

\* setGeneration(0), as clearBoard, randomizeBoard, applyPattern and applySize call it
resetGeneration == 0

\* a variant of stepOnce that leaves the generation counter alone
stepOnceGenerationStays == generation

\* the generation counter after stepOnce: setGeneration((g) => g + 1)
stepOnceGeneration == generation + 1

stepOnce ==
    /\ cells' = computeNext(cells, config.width, config.height, config.wrap)
    /\ generation' = stepOnceGeneration
    /\ Ran("stepOnce", TRUE, none)
    /\ UNCHANGED <<config, running, draftSize, lastFrameRef, paintValueRef,
                   isPainting, frames, now, autoAt>>
    /\ saveEffect

clearBoard ==
    /\ cells' = createEmptyBoard(config.width, config.height)
    /\ generation' = resetGeneration
    /\ Ran("clearBoard", TRUE, none)
    /\ UNCHANGED <<config, running, draftSize, lastFrameRef, paintValueRef,
                   isPainting, frames, now, autoAt>>
    /\ saveEffect

randomizeBoard ==
    /\ \E next \in RandomBoards(config.width, config.height) : cells' = next
    /\ generation' = resetGeneration
    /\ Ran("randomizeBoard", TRUE, none)
    /\ UNCHANGED <<config, running, draftSize, lastFrameRef, paintValueRef,
                   isPainting, frames, now, autoAt>>
    /\ saveEffect

\* Math.floor(n / 2)
half(n) == IF n.nan THEN NaN ELSE Num(n.v \div 2)

\* a variant of the targets that leaves out the bounds test
patternTargetsNoBoundsTest(offsets, width, height) ==
    LET cx == half(width)
        cy == half(height)
    IN  IF cx.nan \/ cy.nan THEN {}
        ELSE { (cy.v + d[2]) * width.v + (cx.v + d[1]) : d \in offsets }

\* the indices the updater of applyPattern writes 1 to: the targets
\* (cx + dx, cy + dy) that pass the bounds test
patternTargets(offsets, width, height) ==
    LET cx == half(width)
        cy == half(height)
    IN  IF cx.nan \/ cy.nan THEN {}
        ELSE { (cy.v + d[2]) * width.v + (cx.v + d[1]) :
                 d \in { e \in offsets :
                           /\ cx.v + e[1] >= 0 /\ cx.v + e[1] < width.v
                           /\ cy.v + e[2] >= 0 /\ cy.v + e[2] < height.v } }

\* the updater of applyPattern: a copy of prev with 1 written at the targets
\* (a write past the end of a typed array does nothing)
placePattern(prev, offsets, width, height) ==
    LET targets == patternTargets(offsets, width, height)
    IN  [i \in DOMAIN prev |-> IF i \in targets THEN 1 ELSE prev[i]]

\* a variant of applyPattern without the test of the board size
applyPatternAlwaysPlaces(k) ==
    /\ cells' = placePattern(cells, PATTERNS[k].offsets, config.width, config.height)
    /\ generation' = resetGeneration
    /\ Ran("applyPattern", TRUE, <<k>>)
    /\ UNCHANGED <<config, running, draftSize, lastFrameRef, paintValueRef,
                   isPainting, frames, now, autoAt>>
    /\ saveEffect

\* applyPattern(patternId), patternId the id of PATTERNS[k]; the history keeps k
applyPattern(k) ==
    LET pattern == PATTERNS[k]
    IN  /\ IF \/ JsLt(config.width, Num(pattern.minWidth))
              \/ JsLt(config.height, Num(pattern.minHeight))
           THEN /\ UNCHANGED <<cells, generation>>
                /\ Ran("applyPattern", FALSE, <<k>>)
           ELSE /\ cells' = placePattern(cells, pattern.offsets,
                                         config.width, config.height)
                /\ generation' = resetGeneration
                /\ Ran("applyPattern", TRUE, <<k>>)
        /\ UNCHANGED <<config, running, draftSize, lastFrameRef, paintValueRef,
                       isPainting, frames, now, autoAt>>
        /\ saveEffect

\* the board-size inputs: setDraftSize
setDraftWidth(value) ==
    /\ value # draftSize.width
    /\ draftSize' = [draftSize EXCEPT !.width = value]
    /\ Ran("setDraftWidth", TRUE, none)
    /\ UNCHANGED <<config, cells, generation, running, lastFrameRef,
                   paintValueRef, isPainting, frames, now, autoAt>>
    /\ saveEffect

setDraftHeight(value) ==
    /\ value # draftSize.height
    /\ draftSize' = [draftSize EXCEPT !.height = value]
    /\ Ran("setDraftHeight", TRUE, none)
    /\ UNCHANGED <<config, cells, generation, running, lastFrameRef,
                   paintValueRef, isPainting, frames, now, autoAt>>
    /\ saveEffect

\* the updater of applySize (lines 553-563): the cell i = y*width + x of next
\* is written when x < copyWidth and y < copyHeight
resizedBoard(prev, oldWidth, oldHeight, width, height) ==
    LET next == createEmptyBoard(width, height)
        copyWidth == MathMin(oldWidth, width)
        copyHeight == MathMin(oldHeight, height)
    IN  [i \in DOMAIN next |->
            IF /\ JsLt(Num(i % width.v), copyWidth)
               /\ JsLt(Num(i \div width.v), copyHeight)
            THEN prev[(i \div width.v) * oldWidth.v + (i % width.v)]
            ELSE 0]

\* a variant of applySize without the early return of line 552
applySizeAlwaysResizes ==
    LET width == clampSize(draftSize.width)
        height == clampSize(draftSize.height)
    IN  /\ cells' = resizedBoard(cells, config.width, config.height, width, height)
        /\ generation' = resetGeneration
        /\ config' = [config EXCEPT !.width = width, !.height = height]
        /\ frames' = driverEffect(frames, config, running, config', running)
        /\ Ran("applySize", TRUE, <<config.width, config.height>>)
        /\ UNCHANGED <<running, draftSize, lastFrameRef, paintValueRef,
                       isPainting, now, autoAt>>
        /\ saveEffect

\* a variant of applySize that also stops the loop
applySizeStopsLoop ==
    LET width == clampSize(draftSize.width)
        height == clampSize(draftSize.height)
    IN  /\ IF JsStrictEq(width, config.width) /\ JsStrictEq(height, config.height)
           THEN /\ UNCHANGED <<config, cells, generation, frames, running>>
                /\ Ran("applySize", FALSE, <<config.width, config.height>>)
           ELSE /\ cells' = resizedBoard(cells, config.width, config.height, width, height)
                /\ generation' = resetGeneration
                /\ config' = [config EXCEPT !.width = width, !.height = height]
                /\ running' = FALSE
                /\ frames' = driverEffect(frames, config, running, config', FALSE)
                /\ Ran("applySize", TRUE, <<config.width, config.height>>)
        /\ UNCHANGED <<draftSize, lastFrameRef, paintValueRef, isPainting, now, autoAt>>
        /\ saveEffect

applySize ==
    LET width == clampSize(draftSize.width)
        height == clampSize(draftSize.height)
    IN  /\ IF JsStrictEq(width, config.width) /\ JsStrictEq(height, config.height)
           THEN /\ UNCHANGED <<config, cells, generation, frames>>
                /\ Ran("applySize", FALSE, <<config.width, config.height>>)
           ELSE /\ cells' = resizedBoard(cells, config.width, config.height, width, height)
                /\ generation' = resetGeneration
                /\ config' = [config EXCEPT !.width = width, !.height = height]
                /\ frames' = driverEffect(frames, config, running, config', running)
                /\ Ran("applySize", TRUE, <<config.width, config.height>>)
        /\ UNCHANGED <<running, draftSize, lastFrameRef, paintValueRef,
                       isPainting, now, autoAt>>
        /\ saveEffect

toggleWrap ==
    /\ config' = [config EXCEPT !.wrap = ~config.wrap]
    /\ frames' = driverEffect(frames, config, running, config', running)
    /\ Ran("toggleWrap", TRUE, none)
    /\ UNCHANGED <<cells, generation, running, draftSize, lastFrameRef,
                   paintValueRef, isPainting, now, autoAt>>
    /\ saveEffect

\* the speed slider: setConfig((c) => ({ ...c, speed: Number(e.target.value) }))
setSpeed(value) ==
    /\ Num(value) # config.speed
    /\ config' = [config EXCEPT !.speed = Num(value)]
    /\ frames' = driverEffect(frames, config, running, config', running)
    /\ Ran("setSpeed", TRUE, none)
    /\ UNCHANGED <<cells, generation, running, draftSize, lastFrameRef,
                   paintValueRef, isPainting, now, autoAt>>
    /\ saveEffect

----------------------------------------------------------------------------
(* Painting *)

\* Math.floor((p / rect.size) * dim)
cellCoord(p, dim) == IF dim.nan THEN NaN ELSE Num((p * dim.v) \div CanvasSize)

\* y * config.width + x
cellIndex(x, y, width) ==
    IF x.nan \/ y.nan \/ width.nan THEN NaN ELSE Num(y.v * width.v + x.v)

\* board[idx] is a live cell: reading past the array or at NaN gives undefined
truthyAt(board, idx) ==
    /\ ~idx.nan
    /\ idx.v \in DOMAIN board
    /\ board[idx.v] # 0

\* a variant of toggleCellAt without the range test of line 465
toggleCellAtNoRangeTest(prev, px, py, forceValue) ==
    LET x == cellCoord(px, config.width)
        y == cellCoord(py, config.height)
        idx == cellIndex(x, y, config.width)
    IN  IF idx.nan \/ idx.v \notin DOMAIN prev
        THEN prev
        ELSE [prev EXCEPT ![idx.v] = forceValue]

\* a variant of toggleCellAt that writes the cell to the right as well
toggleCellAtWideBrush(prev, px, py, forceValue) ==
    LET x == cellCoord(px, config.width)
        y == cellCoord(py, config.height)
        idx == cellIndex(x, y, config.width)
    IN  IF \/ JsLt(x, Num(0)) \/ JsLt(y, Num(0))
           \/ JsGe(x, config.width) \/ JsGe(y, config.height)
        THEN prev
        ELSE IF idx.nan \/ idx.v \notin DOMAIN prev
             THEN prev
             ELSE [i \in DOMAIN prev |->
                      IF i \in {idx.v, idx.v + 1} THEN forceValue ELSE prev[i]]

\* the cells after toggleCellAt(clientX, clientY, forceValue)
toggleCellAt(prev, px, py, forceValue) ==
    LET x == cellCoord(px, config.width)
        y == cellCoord(py, config.height)
        idx == cellIndex(x, y, config.width)
    IN  IF \/ JsLt(x, Num(0)) \/ JsLt(y, Num(0))
           \/ JsGe(x, config.width) \/ JsGe(y, config.height)
        THEN prev
        ELSE IF idx.nan \/ idx.v \notin DOMAIN prev
             THEN prev
             ELSE [prev EXCEPT ![idx.v] = forceValue]

handlePointerDown(p) ==
    LET x == cellCoord(p[1], config.width)
        y == cellCoord(p[2], config.height)
        idx == cellIndex(x, y, config.width)
        initialValue == IF truthyAt(cells, idx) THEN 0 ELSE 1
    IN  /\ paintValueRef' = initialValue
        /\ cells' = toggleCellAt(cells, p[1], p[2], initialValue)
        /\ isPainting' = TRUE
        /\ Ran("pointerDown", cells' # cells, p)
        /\ UNCHANGED <<config, generation, running, draftSize, lastFrameRef,
                       frames, now, autoAt>>
        /\ saveEffect

\* a variant of handlePointerMove that inverts every cell it enters
handlePointerMoveToggles(p) ==
    LET idx == cellIndex(cellCoord(p[1], config.width), cellCoord(p[2], config.height),
                         config.width)
    IN  /\ IF isPainting
           THEN cells' = toggleCellAt(cells, p[1], p[2],
                                      IF truthyAt(cells, idx) THEN 0 ELSE 1)
           ELSE UNCHANGED cells
        /\ Ran("pointerMove", cells' # cells, p)
        /\ UNCHANGED <<config, generation, running, draftSize, lastFrameRef,
                       paintValueRef, isPainting, frames, now, autoAt>>
        /\ saveEffect

handlePointerMove(p) ==
    /\ IF isPainting
       THEN cells' = toggleCellAt(cells, p[1], p[2], paintValueRef)
       ELSE UNCHANGED cells
    /\ Ran("pointerMove", cells' # cells, p)
    /\ UNCHANGED <<config, generation, running, draftSize, lastFrameRef,
                   paintValueRef, isPainting, frames, now, autoAt>>
    /\ saveEffect

\* onPointerUp and onPointerLeave
handlePointerUp ==
    /\ isPainting' = FALSE
    /\ Ran("pointerUp", isPainting, none)
    /\ UNCHANGED <<config, cells, generation, running, draftSize, lastFrameRef,
                   paintValueRef, frames, now, autoAt>>
    /\ saveEffect

----------------------------------------------------------------------------
(* The application *)

fnIdle == [name |-> "idle"]

Init == InitApp /\ fn = fnIdle

Handlers ==
    \/ \E delta \in FrameDeltas : Tick(delta)
    \/ TogglePlay
    \/ Stop
    \/ stepOnce
    \/ clearBoard
    \/ randomizeBoard
    \/ \E k \in 1..Len(PATTERNS) : applyPattern(k)
    \/ \E value \in DraftInputs : setDraftWidth(value)
    \/ \E value \in DraftInputs : setDraftHeight(value)
    \/ applySize
    \/ toggleWrap
    \/ \E value \in SpeedInputs : setSpeed(value)
    \/ \E p \in PointerDownInputs : handlePointerDown(p)
    \/ \E p \in PointerMoveInputs : handlePointerMove(p)
    \/ handlePointerUp

Next == nOps < MaxOps /\ Handlers

Spec == Init /\ [][Next]_vars

\* the frame driver and the handlers that restart it or advance the board;
\* the other handlers leave running, frames, lastFrameRef and config.speed
\* alone, so longer behaviours of the driver are explored without them
DriverHandlers ==
    \/ \E delta \in FrameDeltas : Tick(delta)
    \/ TogglePlay
    \/ Stop
    \/ stepOnce
    \/ \E value \in DraftInputs : setDraftWidth(value)
    \/ applySize
    \/ toggleWrap
    \/ \E value \in SpeedInputs : setSpeed(value)

NextDriver == nOps < MaxDriverOps /\ DriverHandlers

SpecDriver == Init /\ [][NextDriver]_vars

----------------------------------------------------------------------------
(* computeNext on every small board *)

\* the largest width and height, and the most cells, of the boards enumerated
MaxDim == 3

MaxCells == 9

AllBoards(n) == [0..(n - 1) -> {0, 1}]

InitComputeNext ==
    /\ \E w \in 1..MaxDim, h \in 1..MaxDim, wrapIn \in BOOLEAN :
         /\ w * h <= MaxCells
         /\ \E b \in AllBoards(w * h) :
               fn = [name |-> "computeNext", done |-> FALSE, board |-> b,
                     width |-> w, height |-> h, wrap |-> wrapIn,
                     neighbors |-> b, out |-> b, after |-> b]
    /\ InitAppFrom(StoredObject(Undefined, Undefined, Undefined, Undefined,
                                Undefined, Undefined))

\* computeNext(board, width, height, wrap); neighbors[idx] is the value of
\* the local neighbors when the loops reach line 424 for the cell idx
CallComputeNext ==
    /\ ~fn.done
    /\ fn' = [fn EXCEPT
                !.done = TRUE,
                !.neighbors = [idx \in DOMAIN fn.board |->
                                 countNeighbors(fn.board, fn.width, fn.height, fn.wrap,
                                                idx % fn.width, idx \div fn.width)],
                !.out = computeNext(fn.board, Num(fn.width), Num(fn.height), fn.wrap),
                !.after = boardAfterCall(fn.board, Num(fn.width), Num(fn.height),
                                         fn.wrap)]
    /\ UNCHANGED appVars

NextComputeNext == CallComputeNext

SpecComputeNext == InitComputeNext /\ [][NextComputeNext]_vars

----------------------------------------------------------------------------
(* Claims about computeNext, under SpecComputeNext *)

\* the eight offsets of the Moore neighbourhood
MooreOffsets == ({-1, 0, 1} \X {-1, 0, 1}) \ {<<0, 0>>}

InBoard(x, y, w, h) == x >= 0 /\ x < w /\ y >= 0 /\ y < h

\* the offsets of (x,y) whose neighbour is live: on the torus, or on the
\* bounded board where a neighbour off the board does not exist
LiveOnTorus(b, w, h, x, y) ==
    { d \in MooreOffsets : b[((y + d[2]) % h) * w + ((x + d[1]) % w)] = 1 }

LiveOnBoard(b, w, h, x, y) ==
    { d \in MooreOffsets :
        /\ InBoard(x + d[1], y + d[2], w, h)
        /\ b[(y + d[2]) * w + (x + d[1])] = 1 }

MooreCount(b, w, h, wrap, x, y) ==
    Cardinality(IF wrap THEN LiveOnTorus(b, w, h, x, y) ELSE LiveOnBoard(b, w, h, x, y))

FnCells == (0..(fn.width - 1)) \X (0..(fn.height - 1))

\* C1: computeNext sets every cell by B3/S23 applied to the number of live
\* cells among its eight Moore neighbours: a live cell is 1 iff that number is
\* 2 or 3, a dead cell is 1 iff it is 3, and every other cell is 0.
C1_RuleB3S23 ==
    fn.done =>
        /\ DOMAIN fn.out = 0..(fn.width * fn.height - 1)
        /\ \A c \in FnCells :
             LET idx == c[2] * fn.width + c[1]
                 n == MooreCount(fn.board, fn.width, fn.height, fn.wrap, c[1], c[2])
             IN  /\ fn.out[idx] \in {0, 1}
                 /\ fn.board[idx] = 1 => (fn.out[idx] = 1 <=> n \in {2, 3})
                 /\ fn.board[idx] = 0 => (fn.out[idx] = 1 <=> n = 3)

\* a 3 x 3 board on which a live cell survives with two neighbours, a dead
\* cell is born and a live cell dies
C1_Witness ==
    /\ fn.done
    /\ fn.width = 3 /\ fn.height = 3 /\ ~fn.wrap
    /\ \E i, j, k \in DOMAIN fn.board :
         /\ fn.board[i] = 1 /\ fn.neighbors[i] = 2 /\ fn.out[i] = 1
         /\ fn.board[j] = 0 /\ fn.neighbors[j] = 3 /\ fn.out[j] = 1
         /\ fn.board[k] = 1 /\ fn.neighbors[k] >= 4 /\ fn.out[k] = 0

\* C2: with wrap, the neighbour of (x,y) at offset (dx,dy) is read from
\* ((x+dx) mod width, (y+dy) mod height) for every width, height >= 1: a live
\* cell at (width-1, height-1) counts as a neighbour of (0,0), and the cell of
\* a 1 x 1 board is its own neighbour eight times.
C2_WrapModulo ==
    (fn.done /\ fn.wrap) =>
        /\ \A c \in FnCells :
             fn.neighbors[c[2] * fn.width + c[1]] =
                 Cardinality(LiveOnTorus(fn.board, fn.width, fn.height, c[1], c[2]))
        /\ fn.board[fn.width * fn.height - 1] = 1 => fn.neighbors[0] >= 1
        /\ (fn.width = 1 /\ fn.height = 1) => fn.neighbors[0] = 8 * fn.board[0]

\* the only live cell is the last one of a 3 x 3 board and (0,0) counts it
C2_Witness ==
    /\ fn.done /\ fn.wrap
    /\ fn.width = 3 /\ fn.height = 3
    /\ \A i \in DOMAIN fn.board : fn.board[i] = 1 <=> i = 8
    /\ fn.neighbors[0] = 1

\* C3: without wrap, only the neighbours inside [0,width) x [0,height) are
\* counted and none is read from another row or column: a corner cell counts
\* at most 3 and an edge cell that is no corner at most 5.
C3_BoundedCount ==
    (fn.done /\ ~fn.wrap) =>
        \A c \in FnCells :
            LET n == fn.neighbors[c[2] * fn.width + c[1]]
                onColumnEdge == c[1] \in {0, fn.width - 1}
                onRowEdge == c[2] \in {0, fn.height - 1}
            IN  /\ n = Cardinality(LiveOnBoard(fn.board, fn.width, fn.height, c[1], c[2]))
                /\ (onColumnEdge /\ onRowEdge) => n <= 3
                /\ (onColumnEdge \/ onRowEdge) => n <= 5

\* a full 3 x 3 board: the corners count 3, the edges 5, the centre 8
C3_Witness ==
    /\ fn.done /\ ~fn.wrap
    /\ fn.width = 3 /\ fn.height = 3
    /\ \A i \in DOMAIN fn.board : fn.board[i] = 1
    /\ fn.neighbors[0] = 3 /\ fn.neighbors[1] = 5 /\ fn.neighbors[4] = 8

----------------------------------------------------------------------------
(* Claims about the application, under Spec and SpecDriver *)

UserOperations ==
    {"play", "pause", "stop", "stepOnce", "clearBoard", "randomizeBoard",
     "applyPattern", "setDraftWidth", "setDraftHeight", "applySize", "toggleWrap",
     "setSpeed", "pointerDown", "pointerMove", "pointerUp"}

\* 10 * config.speed
SpeedTenths == 10 * config.speed.v + config.speed.f

\* C4: in every reachable state the board has exactly
\* config.width * config.height cells and every cell is 0 or 1.
C4_BoardShape ==
    /\ JsStrictEq(Num(BoardLen(cells)), JsMul(config.width, config.height))
    /\ \A i \in DOMAIN cells : cells[i] \in {0, 1}

\* C5: every generation advance, by the automatic tick or by stepOnce,
\* replaces the board by computeNext of the current board and adds exactly 1
\* to the generation counter.
C5_AdvanceByOne ==
    [][(op'.name \in {"tick", "stepOnce"} /\ op'.acted) =>
          /\ cells' = computeNext(cells, config.width, config.height, config.wrap)
          /\ generation' = generation + 1]_vars

\* an automatic advance of a board with live cells that follows another advance
C5_Witness ==
    /\ op.name = "tick" /\ op.acted
    /\ running
    /\ generation = 2
    /\ \E i \in DOMAIN cells : cells[i] = 1

\* C6: the generation counter is 0 right after clearBoard, randomizeBoard, a
\* pattern placement and a resize, whatever it was before, Stopped or Running.
C6_GenerationReset ==
    (/\ op.name \in {"clearBoard", "randomizeBoard", "applyPattern", "applySize"}
     /\ op.acted)
        => generation = 0

\* a clear while Running, right after the automatic advance that made the
\* counter 1
C6_Witness ==
    /\ op.name = "clearBoard"
    /\ running
    /\ autoAt # none
    /\ nOps = 3
    /\ generation = 0

\* C7: step, clear, randomize, resize and pattern placement leave running as
\* it was, Stopped or Running.
C7_RunningKept ==
    [][op'.name \in {"stepOnce", "clearBoard", "randomizeBoard", "applySize",
                     "applyPattern"}
          => running' = running]_vars

\* a resize that took effect while Running
C7_Witness ==
    /\ op.name = "applySize" /\ op.acted
    /\ running
    /\ frames = 1

C9_AdvanceSpacing ==
    (op.name = "tick" /\ op.acted /\ op.from # none)
        => (now - op.from[1]) * SpeedTenths >= 10000

\* the second of two automatic advances 620 ms apart: a frame 20 ms after
\* the first one was skipped
C9_Witness ==
    /\ op.name = "tick" /\ op.acted
    /\ op.from # none
    /\ now - op.from[1] = 620

\* C10: a resize to (newW, newH) gives a board of newW * newH cells whose
\* cell (x,y) is the old cell (x,y) for x < min(oldW, newW) and
\* y < min(oldH, newH), and 0 elsewhere.
C10_ResizeKeepsOverlap ==
    [][op'.name = "applySize" =>
          LET oldW == config.width
              oldH == config.height
              newW == config'.width
              newH == config'.height
          IN  /\ JsStrictEq(Num(BoardLen(cells')), JsMul(newW, newH))
              /\ \A i \in DOMAIN cells' :
                   LET x == i % newW.v
                       y == i \div newW.v
                   IN  cells'[i] =
                         IF JsLt(Num(x), MathMin(oldW, newW)) /\ JsLt(Num(y), MathMin(oldH, newH))
                         THEN cells[y * oldW.v + x]
                         ELSE 0]_vars

----------------------------------------------------------------------------
(* Pattern placement: applyPattern on boards the catalog fits and does not
   fit, and its updater on every small board *)

\* the most handler runs of one behaviour of SpecPattern
MaxPatternOps == 3

\* persisted records of boards of several sizes: 10 x 11 and 45 x 25 with
\* live cells, 45 x 10 (too short for the larger patterns), 10 x 25 (too
\* narrow), and one whose width is no number
PatternStoredInputs ==
    { StoredObject(JNumber(10, 0), JNumber(11, 0), JNumber(2, 0), JBoolean(FALSE),
                   JString(dark), JString(CellString(110, {0, 9, 11, 12, 13, 55, 109}))),
      StoredObject(JNumber(45, 0), JNumber(25, 0), JNumber(8, 0), JBoolean(TRUE),
                   JString(neon), JString(CellString(1125, {0, 44, 562, 563, 1124}))),
      StoredObject(JNumber(45, 0), JNumber(10, 0), Undefined, Undefined,
                   Undefined, JString(CellString(450, {0, 230}))),
      StoredObject(JNumber(10, 0), JNumber(25, 0), Undefined, Undefined,
                   Undefined, JString(CellString(250, {5, 125}))),
      StoredObject(JString(<<"a", "b", "c">>), JNumber(10, 0), Undefined, Undefined,
                   Undefined, JString(<<"1", "1">>)) }

\* offset lists handed to the updater: two of the catalog, a row of three,
\* and one with targets far off the board
OffsetInputs ==
    { rowsToOffsets(gliderRows),
      rowsToOffsets(smallExploderRows),
      {<<0, 0>>, <<1, 0>>, <<2, 0>>},
      {<<-2, 0>>, <<0, -2>>, <<1, 1>>, <<3, 0>>} }

InitPattern ==
    \/ /\ \E stored \in PatternStoredInputs : InitAppFrom(stored)
       /\ fn = fnIdle
    \/ /\ \E w \in 1..MaxDim, h \in 1..MaxDim, offsets \in OffsetInputs :
            /\ w * h <= MaxCells
            /\ \E b \in AllBoards(w * h) :
                  fn = [name |-> "placePattern", done |-> FALSE, board |-> b,
                        width |-> w, height |-> h, offsets |-> offsets, out |-> b]
       /\ InitAppFrom(StoredObject(JNumber(10, 0), JNumber(10, 0), Undefined,
                                   Undefined, Undefined, Undefined))

\* the updater of applyPattern on the board, the size and the offsets drawn
CallPlacePattern ==
    /\ fn.name = "placePattern"
    /\ ~fn.done
    /\ fn' = [fn EXCEPT
                !.done = TRUE,
                !.out = placePattern(fn.board, fn.offsets, Num(fn.width), Num(fn.height))]
    /\ UNCHANGED appVars

PatternHandlers ==
    \/ \E k \in 1..Len(PATTERNS) : applyPattern(k)
    \/ randomizeBoard
    \/ stepOnce

NextPattern ==
    \/ CallPlacePattern
    \/ fn = fnIdle /\ nOps < MaxPatternOps /\ PatternHandlers

SpecPattern == InitPattern /\ [][NextPattern]_vars

----------------------------------------------------------------------------
(* Claims about pattern placement, under SpecPattern *)

\* after is before with 1 at the cells (cx + dx, cy + dy) of the w x h board,
\* (cx, cy) its centre, and every other cell as it was
PlacedAtCentre(before, after, w, h, offsets) ==
    /\ DOMAIN after = DOMAIN before
    /\ \A x \in 0..(w - 1), y \in 0..(h - 1) :
         after[y * w + x] =
            IF \E d \in offsets : x = (w \div 2) + d[1] /\ y = (h \div 2) + d[2]
            THEN 1
            ELSE before[y * w + x]

\* C11: placing a pattern sets to 1 exactly the in-bounds cells
\* (cx + dx, cy + dy), (cx, cy) = (floor(width/2), floor(height/2)); an offset
\* whose target is off the board is dropped, not wrapped to another cell, and
\* every other cell keeps its value.
C11_PlacementAtCentre ==
    /\ [](fn.name = "placePattern" /\ fn.done
            => PlacedAtCentre(fn.board, fn.out, fn.width, fn.height, fn.offsets))
    /\ [][(op'.name = "applyPattern" /\ op'.acted) =>
            IF config.width.nan \/ config.height.nan
            THEN cells' = cells
            ELSE PlacedAtCentre(cells, cells', config.width.v, config.height.v,
                                PATTERNS[op'.from[1]].offsets)]_vars

\* the updater on a 2 x 2 board with one live cell and a row of three: two
\* targets are on the board, (2,1) is off it and (0,0) stays live
C11_Witness ==
    /\ fn.name = "placePattern" /\ fn.done
    /\ fn.width = 2 /\ fn.height = 2
    /\ fn.offsets = {<<0, 0>>, <<1, 0>>, <<2, 0>>}
    /\ fn.board = [i \in 0..3 |-> IF i = 0 THEN 1 ELSE 0]
    /\ fn.out = [i \in 0..3 |-> IF i \in {0, 3} THEN 1 ELSE 0]

\* C12: on a board narrower than pattern.minWidth or shorter than
\* pattern.minHeight applyPattern changes no cell and nothing else of the
\* state (the message to the user is all it does).
C12_TooSmallSkipped ==
    [][(/\ op'.name = "applyPattern"
        /\ \/ JsLt(config.width, Num(PATTERNS[op'.from[1]].minWidth))
           \/ JsLt(config.height, Num(PATTERNS[op'.from[1]].minHeight)))
          => UNCHANGED <<config, cells, generation, running, draftSize,
                         lastFrameRef, paintValueRef, isPainting, frames>>]_vars

\* the Gosper gun refused on a 45 x 10 board (wide enough, too short) that
\* has live cells
C12_Witness ==
    /\ op.name = "applyPattern" /\ ~op.acted
    /\ op.from = <<4>>
    /\ config.width = Num(45) /\ config.height = Num(10)
    /\ \E i \in DOMAIN cells : cells[i] = 1

----------------------------------------------------------------------------
(* The configuration: the writes of the controls and of the load *)

\* the most handler runs of one behaviour of SpecConfig
MaxConfigOps == 3

\* values of the density slider (min 5, max 90), in percent
DensityInputs == {5, 90}

\* the density slider: setDensity(Number(e.target.value) / 100)
setDensity(value) ==
    /\ value # density
    /\ density' = value
    /\ Logged("setDensity", TRUE, none)
    /\ UNCHANGED <<config, cells, generation, running, draftSize, lastFrameRef,
                   paintValueRef, isPainting, frames, now, autoAt, queue>>
    /\ saveEffect

\* persisted records: one the program wrote, one with every number out of
\* range, one with fractions, and one whose width is no number
ConfigStoredInputs ==
    { StoredObject(JNumber(12, 0), JNumber(10, 0), JNumber(30, 0), JBoolean(TRUE),
                   JString(light), JString(CellString(120, {0, 13, 119}))),
      StoredObject(JNumber(3, 0), JNumber(1000, 0), JNumber(45, 0), JBoolean(FALSE),
                   JString(dawn), JString(<<"1", "0", "1">>)),
      StoredObject(JNumber(10, 4), JNumber(10, 5), JNumber(2, 5), Undefined,
                   Undefined, Undefined),
      StoredObject(JNumber(20, 0), JNumber(10, 0), JNumber(0, 0), Undefined,
                   Undefined, Undefined),
      StoredObject(JString(<<"a", "b", "c">>), JNumber(10, 0), Undefined, Undefined,
                   Undefined, Undefined) }

\* values typed into the board-size inputs, out of range and fractional
ConfigDraftInputs == {Num(0), Real(10, 5), Num(1000)}

InitConfig ==
    /\ \E stored \in ConfigStoredInputs : InitAppFrom(stored)
    /\ fn = fnIdle

ConfigHandlers ==
    \/ \E value \in ConfigDraftInputs : setDraftWidth(value)
    \/ \E value \in ConfigDraftInputs : setDraftHeight(value)
    \/ applySize
    \/ \E value \in SpeedInputs : setSpeed(value)
    \/ \E value \in DensityInputs : setDensity(value)
    \/ toggleWrap

NextConfig == nOps < MaxConfigOps /\ ConfigHandlers

SpecConfig == InitConfig /\ [][NextConfig]_vars

----------------------------------------------------------------------------
(* Claims about the configuration, under SpecConfig *)

IsIntegerIn(n, low, high) ==
    /\ ~n.nan
    /\ n.f = 0
    /\ low <= n.v /\ n.v <= high

\* C13: in every reachable state width and height are integers in [10,150],
\* speed is an integer in [1,30] and density is in [0,1].
C13_ConfigBounds ==
    /\ IsIntegerIn(config.width, MIN_SIZE, MAX_SIZE)
    /\ IsIntegerIn(config.height, MIN_SIZE, MAX_SIZE)
    /\ IsIntegerIn(config.speed, 1, 30)
    /\ 0 <= density /\ density <= 100

----------------------------------------------------------------------------
(* Loading the persisted record: loadSavedState and the initial state of App
   (lines 239-290), at the first load and at every reload of the page *)

\* the most handler runs and reloads of one behaviour of SpecLoad
MaxLoadOps == 3

\* localStorage.getItem gives null (no record), or a text JSON.parse throws
\* on, or the text of a JSON value
NoRecord == [kind |-> "absent"]

Unparseable == [kind |-> "unparseable"]

\* a record the program wrote, and the same record with one field missing,
\* null, of another type or with a value out of range
LoadBase ==
    [width |-> JNumber(12, 0), height |-> JNumber(10, 0), speed |-> JNumber(5, 0),
     wrap |-> JBoolean(FALSE), theme |-> JString(dark),
     cells |-> JString(CellString(120, {0, 13, 119}))]

\* what a field of the record may hold instead
LoadValueInputs ==
    { Undefined, JNull, JBoolean(TRUE), JBoolean(FALSE),
      JNumber(0, 0), JNumber(1, 0), JNumber(2, 5), JNumber(10, 5), JNumber(45, 0),
      JNumber(1000, 0),
      JString(<<>>), JString(<<"1", "1">>), JString(<<"a", "b", "c">>),
      JString(<<"1", "x", "1">>), JString(light),
      JString(<<"t", "o", "S", "t", "r", "i", "n", "g">>) }

LoadStoredInputs ==
    {NoRecord, Unparseable}
    \cup { [kind |-> "object", fields |-> LoadBase] }
    \cup { [kind |-> "object", fields |-> [LoadBase EXCEPT ![k] = v]] :
             k \in DOMAIN LoadBase, v \in LoadValueInputs }

InitLoad ==
    \E stored \in LoadStoredInputs :
        /\ fn = [name |-> "loadSavedState", stored |-> stored]
        /\ InitAppFrom(stored)

\* the page is loaded again: App is constructed from the record in
\* localStorage, and the effects of its first render run
Reload ==
    LET saved == loadSavedState(storage)
    IN  /\ fn' = [name |-> "loadSavedState", stored |-> storage]
        /\ config' = initialConfig(saved)
        /\ cells' = initialCells(saved)
        /\ generation' = 0
        /\ running' = FALSE
        /\ draftSize' = [width |-> config'.width, height |-> config'.height]
        /\ lastFrameRef' = 0
        /\ paintValueRef' = 1
        /\ isPainting' = FALSE
        /\ frames' = 0
        /\ autoAt' = none
        /\ density' = 32
        /\ queue' = <<>>
        /\ storage' = saveState(config', cells')
        /\ op' = [name |-> "reload", acted |-> TRUE, from |-> none]
        /\ nOps' = nOps + 1
        /\ UNCHANGED now

LoadHandlers ==
    \/ Reload
    \/ toggleWrap
    \/ \E p \in PointerDownInputs : handlePointerDown(p)
    \/ applySize
    \/ \E value \in ConfigDraftInputs : setDraftWidth(value)

NextLoad == nOps < MaxLoadOps /\ LoadHandlers

SpecLoad == InitLoad /\ [][NextLoad]_vars

\* the state is the one a load has just produced, from the record fn.stored
JustLoaded == op.name \in {"init", "reload"}

\* a stored size, rounded and clamped into [MIN_SIZE, MAX_SIZE]
ClampedSize(n) ==
    LET r == MathRound(n)
    IN  IF JsLt(r, Num(MIN_SIZE)) THEN Num(MIN_SIZE)
        ELSE IF JsLt(Num(MAX_SIZE), r) THEN Num(MAX_SIZE) ELSE r

\* a stored speed, clamped into [1, 30]
ClampedSpeed(n) ==
    IF JsLt(n, Num(1)) THEN Num(1) ELSE IF JsLt(Num(30), n) THEN Num(30) ELSE n

\* the configuration field by field: the stored value where it has the
\* field's type, the field's default where it is missing or of another type
FieldByField(parsed) ==
    /\ config.width = IF parsed.width.t = "number"
                      THEN ClampedSize(parsed.width.n) ELSE Num(DEFAULT_WIDTH)
    /\ config.height = IF parsed.height.t = "number"
                       THEN ClampedSize(parsed.height.n) ELSE Num(DEFAULT_HEIGHT)
    /\ config.speed = IF parsed.speed.t = "number"
                      THEN ClampedSpeed(parsed.speed.n) ELSE Num(8)
    /\ config.wrap = IF parsed.wrap.t = "boolean" THEN parsed.wrap.b ELSE TRUE
    /\ config.theme = IF parsed.theme.t = "string" /\ parsed.theme.s \in THEMES
                      THEN parsed.theme.s ELSE neon

CompleteDefault ==
    /\ config = [width |-> Num(DEFAULT_WIDTH), height |-> Num(DEFAULT_HEIGHT),
                 speed |-> Num(8), wrap |-> TRUE, theme |-> neon]
    /\ cells = ZeroBoard(DEFAULT_WIDTH * DEFAULT_HEIGHT)

\* C14: after a load, every field of the configuration is the stored
\* (clamped) value where the record holds a value of the field's type and the
\* field's default (42, 28, 8, true, 'neon') where the field is missing or of
\* another type; a record that cannot be parsed gives the complete default
\* configuration and an empty board
C14_FieldByFieldFallback ==
    JustLoaded =>
        /\ fn.stored.kind = "object" => FieldByField(fn.stored.fields)
        /\ fn.stored.kind = "unparseable" => CompleteDefault

\* a record without a string of cells has just been loaded
CellsUnusable ==
    /\ JustLoaded
    /\ fn.stored.kind = "object"
    /\ fn.stored.fields.cells.t # "string"

AllDead(board) == \A i \in DOMAIN board : board[i] = 0

----------------------------------------------------------------------------
(* Painting while Running, with the frame callback and the render that
   applies its update as two steps.  The tick of lines 442-450 runs outside
   every event handler: its setCells only queues the updater (React 18
   batches such updates and renders them in a later task), so a pointer event
   can be handled between the callback and that render.  The handler then
   runs in the closure of the last committed render: line 486 reads cells of
   that render, while the updater of toggleCellAt receives the board the
   queue has produced so far.  The render that follows a handler is modelled
   as applying every queued update in order; React may commit the handler's
   update first and apply it again after the queued advance, which gives the
   same board once the queue is empty. *)

\* the most handler, callback and render steps of one behaviour of
\* SpecBatched
MaxBatchedOps == 5

\* the most advances queued and not yet rendered
MaxPending == 2

\* a 10 x 10 board with a row of three live cells, (0,1) (1,1) (2,1), and a
\* block at the far corner
BatchedStoredInputs ==
    { StoredObject(JNumber(10, 0), JNumber(10, 0), JNumber(8, 0), JBoolean(wr),
                   JString(neon), JString(CellString(100, {10, 11, 12, 88, 89, 98, 99}))) :
        wr \in BOOLEAN }

BatchedPointerInputs == {<<40, 5>>, <<40, 40>>, <<5, 40>>, <<-8, 40>>}

InitBatched ==
    /\ fn = fnIdle
    /\ \E stored \in BatchedStoredInputs : InitAppFrom(stored)

\* the boards the queued advances produce, one after the other, from board
RECURSIVE advancedBoards(_, _)
advancedBoards(board, q) ==
    IF q = <<>> THEN <<>>
    ELSE LET next == computeNext(board, q[1].width, q[1].height, q[1].wrap)
         IN  <<next>> \o advancedBoards(next, Tail(q))

\* the board the queued updaters hand on: prev of the next updater
flushed(board, q) ==
    IF q = <<>> THEN board ELSE advancedBoards(board, q)[Len(q)]

\* tick(now) of lines 442-451: setCells queues the updater, nothing is
\* rendered or saved
TickCallback(delta) ==
    /\ frames > 0
    /\ now' = now + delta
    /\ IF intervalElapsed(now', lastFrameRef, config.speed)
       THEN /\ Len(queue) < MaxPending
            /\ queue' = Append(queue, [width |-> config.width, height |-> config.height,
                                       wrap |-> config.wrap])
            /\ lastFrameRef' = now'
            /\ autoAt' = <<now'>>
            /\ Logged("tick", TRUE, autoAt)
       ELSE /\ UNCHANGED <<queue, lastFrameRef, autoAt>>
            /\ Logged("tick", FALSE, none)
    /\ frames' = requestAnimationFrame(frames - 1)
    /\ UNCHANGED <<config, cells, generation, running, draftSize, paintValueRef,
                   isPainting, density>>
    /\ saveEffect

\* the render React scheduled for the queued updates, and its effects: the
\* updaters run in order, each setGeneration((g) => g + 1) with them
Render ==
    /\ queue # <<>>
    /\ cells' = flushed(cells, queue)
    /\ generation' = generation + Len(queue)
    /\ queue' = <<>>
    /\ Logged("render", TRUE, none)
    /\ UNCHANGED <<config, running, draftSize, lastFrameRef, paintValueRef,
                   isPainting, frames, now, autoAt, density>>
    /\ storage' = saveState(config', cells')

\* handlePointerDown with updates queued: cells[idx] of line 486 is the board
\* of the last render, prev of the updater is the board after the queued
\* advances
handlePointerDownBatched(p) ==
    LET x == cellCoord(p[1], config.width)
        y == cellCoord(p[2], config.height)
        idx == cellIndex(x, y, config.width)
        prev == flushed(cells, queue)
        initialValue == IF truthyAt(cells, idx) THEN 0 ELSE 1
    IN  /\ paintValueRef' = initialValue
        /\ cells' = toggleCellAt(prev, p[1], p[2], initialValue)
        /\ generation' = generation + Len(queue)
        /\ queue' = <<>>
        /\ isPainting' = TRUE
        /\ Logged("pointerDown", cells' # prev, p)
        /\ UNCHANGED <<config, running, draftSize, lastFrameRef, frames, now,
                       autoAt, density>>
        /\ storage' = saveState(config', cells')

\* handlePointerMove with updates queued
handlePointerMoveBatched(p) ==
    LET prev == flushed(cells, queue)
    IN  /\ IF isPainting
           THEN /\ cells' = toggleCellAt(prev, p[1], p[2], paintValueRef)
                /\ generation' = generation + Len(queue)
                /\ queue' = <<>>
                /\ storage' = saveState(config, cells')
                /\ Logged("pointerMove", cells' # prev, p)
           ELSE /\ UNCHANGED <<cells, generation, queue, storage>>
                /\ Logged("pointerMove", FALSE, p)
        /\ UNCHANGED <<config, running, draftSize, lastFrameRef, paintValueRef,
                       isPainting, frames, now, autoAt, density>>

\* the buttons are clicked between renders only
BatchedHandlers ==
    \/ \E delta \in FrameDeltas : TickCallback(delta)
    \/ Render
    \/ \E p \in BatchedPointerInputs : handlePointerDownBatched(p)
    \/ \E p \in BatchedPointerInputs : handlePointerMoveBatched(p)
    \/ handlePointerUp
    \/ queue = <<>> /\ TogglePlay
    \/ queue = <<>> /\ stepOnce

NextBatched == fn = fnIdle /\ nOps < MaxBatchedOps /\ BatchedHandlers

SpecBatched == InitBatched /\ [][NextBatched]_vars


\* the record holds the serialization of board and the width, height, speed
\* and wrap of cfg
RecordHolds(record, board, cfg) ==
    /\ record.kind = "object"
    /\ record.fields.cells = JString(serializeCells(board))
    /\ record.fields.width = JsonNumber(cfg.width)
    /\ record.fields.height = JsonNumber(cfg.height)
    /\ record.fields.speed = JsonNumber(cfg.speed)
    /\ record.fields.wrap = JBoolean(cfg.wrap)

C18_PaintSerialized ==
    [][(op'.name = "pointerDown" /\ nOps' = nOps + 1) =>
          LET x == cellCoord(op'.from[1], config.width)
              y == cellCoord(op'.from[2], config.height)
              prev == flushed(cells, queue)
          IN  (~x.nan /\ ~y.nan /\ InBoard(x.v, y.v, config.width.v, config.height.v)) =>
                  LET i == y.v * config.width.v + x.v
                  IN  /\ cells' = [prev EXCEPT ![i] = paintValueRef']
                      /\ paintValueRef' = 1 - prev[i]]_vars

----------------------------------------------------------------------------
(* Paint gestures *)

\* the most handler runs of one behaviour of SpecPaint
MaxPaintOps == 4

\* a 10 x 10 board with seven live cells, and the record whose width is no
\* number
PaintStoredInputs ==
    { StoredObject(JNumber(10, 0), JNumber(10, 0), JNumber(8, 0), JBoolean(FALSE),
                   JString(neon), JString(CellString(100, {1, 9, 10, 11, 12, 98, 99}))),
      StoredObject(JString(<<"a", "b", "c">>), JNumber(10, 0), Undefined, Undefined,
                   Undefined, JString(<<"1", "1">>)) }

\* a pointer goes down on the canvas: cells (0,0), (1,0), (9,9)
PaintDownInputs == {<<5, 5>>, <<40, 5>>, <<329, 329>>}

\* the captured pointer moves on the canvas, to cells (1,0) and (2,0), and
\* off it: to the left (cell (-1,1)), to the right (cell (10,0)), above
\* (cell (0,-1)) and below (cell (0,10))
PaintMoveInputs ==
    {<<40, 5>>, <<75, 5>>, <<-8, 40>>, <<330, 5>>, <<5, -8>>, <<5, 340>>}

InitPaint ==
    /\ fn = fnIdle
    /\ \E stored \in PaintStoredInputs : InitAppFrom(stored)

PaintHandlers ==
    \/ \E p \in PaintDownInputs : handlePointerDown(p)
    \/ \E p \in PaintMoveInputs : handlePointerMove(p)
    \/ handlePointerUp
    \/ stepOnce

NextPaint == fn = fnIdle /\ nOps < MaxPaintOps /\ PaintHandlers

SpecPaint == InitPaint /\ [][NextPaint]_vars

\* c is floor(p / cellSize) for a canvas of CanvasSize pixels split into dim
\* cells
IsFloorCell(c, p, dim) == c * CanvasSize <= p * dim /\ p * dim < (c + 1) * CanvasSize

\* the cell a pointer position maps to, as <<x, y>>
PointedCell(p) ==
    <<CHOOSE c \in -2..(config.width.v + 2) : IsFloorCell(c, p[1], config.width.v),
      CHOOSE c \in -2..(config.height.v + 2) : IsFloorCell(c, p[2], config.height.v)>>

Numeric == ~config.width.nan /\ ~config.height.nan

\* the pointer position p maps to a cell of the board
OnBoard(p) ==
    /\ Numeric
    /\ InBoard(PointedCell(p)[1], PointedCell(p)[2], config.width.v, config.height.v)

PointedIndex(p) == PointedCell(p)[2] * config.width.v + PointedCell(p)[1]

\* this step is a run of the handler called name
StepOf(name) == op'.name = name /\ nOps' = nOps + 1

\* C17: a pointer-down on a cell sets the paint value to the inverse of that
\* cell's value and writes it to the cell; while the gesture lasts a
\* pointer-move onto a cell writes the same paint value to that cell and to
\* no other, so a cell that holds it stays; outside a gesture a pointer-move
\* changes no cell; only a pointer-down changes the paint value, and the
\* gesture lasts from the pointer-down to the pointer-up or leave
C17_DragPaint ==
    [][/\ (StepOf("pointerDown") /\ OnBoard(op'.from)) =>
              /\ paintValueRef' = 1 - cells[PointedIndex(op'.from)]
              /\ cells' = [flushed(cells, queue) EXCEPT
                              ![PointedIndex(op'.from)] = paintValueRef']
              /\ isPainting'
       /\ (StepOf("pointerMove") /\ isPainting /\ OnBoard(op'.from)) =>
              cells' = [flushed(cells, queue) EXCEPT
                           ![PointedIndex(op'.from)] = paintValueRef]
       /\ (StepOf("pointerMove") /\ ~isPainting) => cells' = cells
       /\ StepOf("pointerMove") => isPainting' = isPainting
       /\ StepOf("pointerUp") => ~isPainting'
       /\ paintValueRef' # paintValueRef => StepOf("pointerDown")]_vars

\* a gesture that erases: the pointer went down on the live cell (1,0), and
\* the move onto (2,0), a dead cell, left it dead
C17_Witness ==
    /\ op.name = "pointerMove"
    /\ op.from = <<75, 5>>
    /\ isPainting
    /\ paintValueRef = 0
    /\ ~op.acted
    /\ BoardLen(cells) = 100
    /\ cells[1] = 0
    /\ cells[2] = 0

\* C19: a pointer position maps to the cell (floor(px / cellWidth),
\* floor(py / cellHeight)); a pointer-down or pointer-move whose cell lies
\* outside the board leaves every cell as it was, and one whose cell lies on
\* the board changes no cell but that one
C19_OutOfRangeNoOp ==
    [][(StepOf("pointerDown") \/ StepOf("pointerMove")) =>
          IF OnBoard(op'.from)
          THEN /\ DOMAIN cells' = DOMAIN cells
               /\ \A i \in DOMAIN cells :
                      i # PointedIndex(op'.from) => cells'[i] = cells[i]
          ELSE cells' = cells]_vars

\* the captured pointer moved to the left of the canvas, to cell (-1,1),
\* while painting the value the cell (9,0) does not hold: index 1 * 10 - 1 = 9
\* is on the board
C19_Witness ==
    /\ op.name = "pointerMove"
    /\ op.from = <<-8, 40>>
    /\ isPainting
    /\ BoardLen(cells) = 100
    /\ cells[9] # paintValueRef

----------------------------------------------------------------------------
(* computeNext and its argument *)

----------------------------------------------------------------------------
(* The frame driver over unbounded time.  The state is kept finite: the
   timestamps are kept relative to the last automatic advance (the tick only
   reads their difference), the generation counter is kept modulo
   GenerationModulus, and the history variables are left alone. *)

\* the generation counter is kept modulo this
GenerationModulus == 3

\* 10 x 10 boards that are all dead, stable (a block) and oscillating (a row
\* of three), at 1, 8 and 30 generations per second
LiveStoredInputs ==
    { StoredObject(JNumber(10, 0), JNumber(10, 0), JNumber(s, 0), JBoolean(wr),
                   JString(neon), JString(CellString(100, live))) :
        s \in {1, 8, 30}, wr \in BOOLEAN,
        live \in {{}, {44, 45, 54, 55}, {10, 11, 12}} }

InitLive ==
    /\ fn = fnIdle
    /\ \E stored \in LiveStoredInputs : InitAppFrom(stored)

\* a variant of LiveTick that requests the next frame only after an advance
\* that changed the board
LiveTickStopsOnStillBoard(delta) ==
    /\ frames > 0
    /\ IF intervalElapsed(now + delta, lastFrameRef, config.speed)
       THEN /\ cells' = computeNext(cells, config.width, config.height, config.wrap)
            /\ generation' = (generation + 1) % GenerationModulus
            /\ now' = 0
            /\ lastFrameRef' = 0
            /\ op' = [name |-> "tick", acted |-> TRUE, from |-> none]
            /\ frames' = IF cells' # cells
                         THEN requestAnimationFrame(frames - 1) ELSE frames - 1
       ELSE /\ now' = now + delta - lastFrameRef
            /\ lastFrameRef' = 0
            /\ op' = [name |-> "tick", acted |-> FALSE, from |-> none]
            /\ frames' = requestAnimationFrame(frames - 1)
            /\ UNCHANGED <<cells, generation>>
    /\ UNCHANGED <<config, running, draftSize, paintValueRef, isPainting, autoAt,
                   nOps, density, queue, fn>>
    /\ saveEffect

\* tick(now) of lines 442-452 and the render of its update, delta ms after
\* the callback before
LiveTick(delta) ==
    /\ frames > 0
    /\ IF intervalElapsed(now + delta, lastFrameRef, config.speed)
       THEN /\ cells' = computeNext(cells, config.width, config.height, config.wrap)
            /\ generation' = (generation + 1) % GenerationModulus
            /\ now' = 0
            /\ lastFrameRef' = 0
            /\ op' = [name |-> "tick", acted |-> TRUE, from |-> none]
       ELSE /\ now' = now + delta - lastFrameRef
            /\ lastFrameRef' = 0
            /\ op' = [name |-> "tick", acted |-> FALSE, from |-> none]
            /\ UNCHANGED <<cells, generation>>
    /\ frames' = requestAnimationFrame(frames - 1)
    /\ UNCHANGED <<config, running, draftSize, paintValueRef, isPainting, autoAt,
                   nOps, density, queue, fn>>
    /\ saveEffect

\* the Play/Pause button
LiveTogglePlay ==
    /\ running' = ~running
    /\ frames' = driverEffect(frames, config, running, config, running')
    /\ op' = [name |-> IF running THEN "pause" ELSE "play", acted |-> TRUE,
              from |-> none]
    /\ UNCHANGED <<config, cells, generation, draftSize, lastFrameRef,
                   paintValueRef, isPainting, now, autoAt, nOps, density, queue,
                   fn, storage>>

NextLive ==
    \/ \E delta \in FrameDeltas : LiveTick(delta)
    \/ LiveTogglePlay

\* the browser runs a requested frame callback
SpecLive ==
    InitLive /\ [][NextLive]_vars /\ WF_vars(\E delta \in FrameDeltas : LiveTick(delta))

\* C21: while the loop stays Running and frame callbacks keep arriving with
\* advancing timestamps, automatic advances never cease: if the loop is
\* Running from some point on, the frame callback advances the generation
\* counter infinitely often, whatever the board
C21_AdvancesNeverCease ==
    <>[]running => []<><<op'.name = "tick" /\ op'.acted /\ generation' # generation>>_vars

\* Running on a board that is all dead, after an automatic advance that left
\* it all dead
C21_Witness ==
    /\ running
    /\ frames > 0
    /\ op.name = "tick" /\ op.acted
    /\ generation = 2
    /\ AllDead(cells)

----------------------------------------------------------------------------
(* One advance per frame callback *)

\* C22: a frame callback advances the board by at most one generation: the
\* generation counter stays or grows by 1, and after a gap of two step
\* intervals or more the callback performs exactly one advance (one
\* computeNext of the board) and takes its own timestamp as the time of the
\* last advance, so nothing is left to catch up
C22_OneAdvancePerCallback ==
    [][StepOf("tick") =>
          /\ generation' \in {generation, generation + 1}
          /\ (now' - lastFrameRef) * SpeedTenths >= 20000 =>
                /\ generation' = generation + 1
                /\ cells' = computeNext(cells, config.width, config.height, config.wrap)
                /\ lastFrameRef' = now']_vars

\* the first callback after play comes 600 ms after the time of the last
\* advance, 18 step intervals at speed 30, and the counter is 1
C22_Witness ==
    /\ op.name = "tick" /\ op.acted
    /\ config.speed = Num(30)
    /\ now = 600
    /\ lastFrameRef = 600
    /\ generation = 1
    /\ \E i \in DOMAIN cells : cells[i] = 1

----------------------------------------------------------------------------
(* A resize to the current size *)

\* C23: a resize request whose clamped width and height are the current ones
\* is a no-op: the board keeps its cell values and the configuration is
\* unchanged, and where the sizes are numbers the generation counter, the
\* loop and the stored record are unchanged too
C23_SameSizeNoOp ==
    [][StepOf("applySize") =>
          LET width == clampSize(draftSize.width)
              height == clampSize(draftSize.height)
          IN  /\ (width = config.width /\ height = config.height) =>
                    /\ cells' = cells
                    /\ config' = config
              /\ (JsStrictEq(width, config.width) /\ JsStrictEq(height, config.height)) =>
                    /\ generation' = generation
                    /\ running' = running
                    /\ frames' = frames
                    /\ storage' = storage]_vars

\* the width typed in, 3, clamps to the current width 10: the resize did
\* nothing to a board with live cells at generation 2
C23_Witness ==
    /\ op.name = "applySize"
    /\ ~op.acted
    /\ draftSize.width = Num(3)
    /\ config.width = Num(10)
    /\ generation = 2
    /\ \E i \in DOMAIN cells : cells[i] = 1

----------------------------------------------------------------------------
(* applyPattern on every board size: the test of the board size and the
   targets its updater writes to *)

InitFit ==
    /\ \E k \in 1..Len(PATTERNS), w \in MIN_SIZE..MAX_SIZE, h \in MIN_SIZE..MAX_SIZE :
          fn = [name |-> "applyPattern", done |-> FALSE, k |-> k, width |-> w,
                height |-> h, fits |-> FALSE, targets |-> {}]
    /\ InitAppFrom(StoredObject(JNumber(10, 0), JNumber(10, 0), Undefined, Undefined,
                                Undefined, Undefined))

\* applyPattern(PATTERNS[k].id) on a board of fn.width x fn.height: the test
\* of lines 528-531 and the cells the updater sets
CallFit ==
    /\ fn.name = "applyPattern"
    /\ ~fn.done
    /\ LET pattern == PATTERNS[fn.k]
           fits == ~(\/ JsLt(Num(fn.width), Num(pattern.minWidth))
                     \/ JsLt(Num(fn.height), Num(pattern.minHeight)))
       IN  fn' = [fn EXCEPT
                    !.done = TRUE,
                    !.fits = fits,
                    !.targets = IF fits
                                THEN patternTargets(pattern.offsets, Num(fn.width),
                                                    Num(fn.height))
                                ELSE {}]
    /\ UNCHANGED appVars

NextFit == CallFit

SpecFit == InitFit /\ [][NextFit]_vars

\* the live cells of the four templates
TemplateLive == <<5, 7, 48, 36>>

\* C24: for every pattern of the catalog and every board size in
\* [10,150] x [10,150] that passes the test of the minimum size, the updater
\* sets one cell of the board for every live cell of the template, so no
\* offset is dropped and an empty board gets 5, 7, 48 or 36 live cells
C24_CatalogFits ==
    (fn.name = "applyPattern" /\ fn.done /\ fn.fits) =>
        /\ Cardinality(PATTERNS[fn.k].offsets) = TemplateLive[fn.k]
        /\ Cardinality(fn.targets) = TemplateLive[fn.k]
        /\ \A d \in PATTERNS[fn.k].offsets :
              /\ InBoard(fn.width \div 2 + d[1], fn.height \div 2 + d[2],
                         fn.width, fn.height)
              /\ (fn.height \div 2 + d[2]) * fn.width + (fn.width \div 2 + d[1])
                    \in fn.targets

\* the Gosper gun on the smallest board it is placed on
C24_Witness ==
    /\ fn.name = "applyPattern" /\ fn.done /\ fn.fits
    /\ fn.k = 4
    /\ fn.width = 45
    /\ fn.height = 25
    /\ Cardinality(fn.targets) = 36

----------------------------------------------------------------------------
(* The glider of the catalog, placed and advanced *)

\* the most handler runs of one behaviour of SpecGlider
MaxGliderOps == 5

\* the widths and heights of the empty boards the glider is placed on
GliderSizes == 10..14

GliderStoredInputs ==
    { StoredObject(JNumber(w, 0), JNumber(h, 0), JNumber(8, 0), JBoolean(FALSE),
                   JString(neon), Undefined) : w \in GliderSizes, h \in GliderSizes }

InitGlider ==
    /\ fn = fnIdle
    /\ \E stored \in GliderStoredInputs : InitAppFrom(stored)

\* the glider is placed on an empty board only
GliderHandlers ==
    \/ (\A i \in DOMAIN cells : cells[i] = 0) /\ applyPattern(1)
    \/ stepOnce

NextGlider == fn = fnIdle /\ nOps < MaxGliderOps /\ GliderHandlers

SpecGlider == InitGlider /\ [][NextGlider]_vars

LiveCells(board) == {i \in DOMAIN board : board[i] = 1}

\* the cells applyPattern sets for the glider on the current board: the
\* template .O. / ..O / OOO around the centre, as cell indices
GliderAtCentre ==
    LET cx == config.width.v \div 2
        cy == config.height.v \div 2
    IN  { (cy + d[2]) * config.width.v + (cx + d[1]) :
            d \in {<<0, -1>>, <<1, 0>>, <<-1, 1>>, <<0, 1>>, <<1, 1>>} }

\* C25: the glider placed on an empty board far from the edges and advanced
\* with wrap off has five live cells after each of the first four
\* generations, and after the fourth they are the cells of the placed glider
\* shifted by +1 in x and +1 in y
C25_GliderTranslates ==
    (LiveCells(cells) # {} /\ ~config.wrap) =>
        /\ generation = 0 => LiveCells(cells) = GliderAtCentre
        /\ generation \in 1..4 => Cardinality(LiveCells(cells)) = 5
        /\ generation = 4 =>
              LiveCells(cells) = {i + config.width.v + 1 : i \in GliderAtCentre}

\* four generations after the placement on the 10 x 10 board
C25_Witness ==
    /\ op.name = "stepOnce"
    /\ generation = 4
    /\ config.width = Num(10)
    /\ config.height = Num(10)
    /\ ~config.wrap
    /\ Cardinality(LiveCells(cells)) = 5

----------------------------------------------------------------------------
(* serializeCells and deserializeCells on every small board and every short
   string *)

\* the longest raw string
MaxRawLen == 5

RawChars == {"0", "1", "x"}

RawInputs == UNION { [1..n -> RawChars] : n \in 0..MaxRawLen }

\* the widths and heights passed: small numbers, and the NaN width that
\* loadSavedState hands on for a stored width that is no number
DimensionInputs ==
    { <<Num(d[1]), Num(d[2])>> :
          d \in {e \in (1..MaxDim) \X (1..MaxDim) : e[1] * e[2] <= MaxCells} }
    \cup { <<NaN, Num(h)>> : h \in 1..MaxDim }

InitCodec ==
    /\ \E d \in DimensionInputs :
          \/ \E raw \in RawInputs :
                fn = [name |-> "deserializeCells", done |-> FALSE, raw |-> raw,
                      width |-> d[1], height |-> d[2], out |-> ZeroBoard(0)]
          \/ \E b \in AllBoards(ArrayLength(JsMul(d[1], d[2]))) :
                fn = [name |-> "roundTrip", done |-> FALSE, board |-> b,
                      width |-> d[1], height |-> d[2], text |-> <<>>,
                      back |-> ZeroBoard(0), record |-> NoRecord]
    /\ InitAppFrom(StoredObject(JNumber(10, 0), JNumber(10, 0), Undefined, Undefined,
                                Undefined, Undefined))

\* deserializeCells(raw, width, height)
CallDeserializeCells ==
    /\ fn.name = "deserializeCells"
    /\ ~fn.done
    /\ fn' = [fn EXCEPT !.done = TRUE,
                        !.out = deserializeCells(fn.raw, fn.width, fn.height)]
    /\ UNCHANGED appVars

\* saveState(board) under a configuration of fn.width x fn.height, and
\* deserializeCells of the string it wrote
CallRoundTrip ==
    /\ fn.name = "roundTrip"
    /\ ~fn.done
    /\ LET text == serializeCells(fn.board)
       IN  fn' = [fn EXCEPT
                    !.done = TRUE,
                    !.text = text,
                    !.back = deserializeCells(text, fn.width, fn.height),
                    !.record = saveState([config EXCEPT !.width = fn.width,
                                                        !.height = fn.height],
                                         fn.board)]
    /\ UNCHANGED appVars

NextCodec == CallDeserializeCells \/ CallRoundTrip

SpecCodec == InitCodec /\ [][NextCodec]_vars

\* raw without the characters other than '0' and '1'
RECURSIVE Stripped(_)
Stripped(raw) ==
    IF raw = <<>> THEN <<>>
    ELSE IF Head(raw) \in {"0", "1"} THEN <<Head(raw)>> \o Stripped(Tail(raw))
         ELSE Stripped(Tail(raw))

C27_RoundTrip ==
    (fn.name = "roundTrip" /\ fn.done) =>
        /\ fn.back = fn.board
        /\ \A i \in 1..Len(fn.text) : fn.text[i] \in {"0", "1"}
        /\ JsStrictEq(Num(Len(fn.text)), JsMul(fn.width, fn.height))
        /\ fn.record.fields.width.t = "number"
        /\ fn.record.fields.height.t = "number"
        /\ JsStrictEq(Num(Len(fn.record.fields.cells.s)),
                      JsMul(fn.record.fields.width.n, fn.record.fields.height.n))

----------------------------------------------------------------------------
(* What a paint write leaves alone *)

\* the cells a step changed
ChangedCells == {i \in DOMAIN cells : i \notin DOMAIN cells' \/ cells'[i] # cells[i]}

\* C28: a pointer-down or pointer-move leaves the generation counter, the
\* Running/Stopped state, the frame loop and the configuration as they
\* were, keeps the number of cells and changes at most one cell, the one
\* pointed at; a pointer-move that writes the value the cell already holds
\* leaves the board, and the record written from it, as they were
C28_PaintOneCell ==
    [][/\ (StepOf("pointerDown") \/ StepOf("pointerMove")) =>
              /\ generation' = generation
              /\ running' = running
              /\ config' = config
              /\ frames' = frames
              /\ lastFrameRef' = lastFrameRef
              /\ DOMAIN cells' = DOMAIN cells
              /\ Cardinality(ChangedCells) <= 1
              /\ (ChangedCells # {}) =>
                     /\ OnBoard(op'.from)
                     /\ ChangedCells = {PointedIndex(op'.from)}
       /\ ( /\ StepOf("pointerMove")
            /\ isPainting
            /\ OnBoard(op'.from)
            /\ cells[PointedIndex(op'.from)] = paintValueRef ) =>
              /\ cells' = cells
              /\ storage' = storage
              /\ ~op'.acted]_vars

\* while the loop runs, after a generation was computed, a pointer-move
\* inside a gesture wrote the value the cell (1,0) already held
C28_Witness ==
    /\ op.name = "pointerMove"
    /\ op.from = <<40, 5>>
    /\ ~op.acted
    /\ isPainting
    /\ running
    /\ generation > 0
    /\ BoardLen(cells) = 110
    /\ cells[1] = paintValueRef

============================================================================
